---- MODULE Spec2Model ----
(***************************************************************************)
(* The 2048 engine of src/app.py (class Game2048): the 4x4 grid, the       *)
(* score, the won flag and the status line, driven by reset_game and by    *)
(* move in the four directions.  Rows and columns are numbered 1..4 here   *)
(* (0..3 in the source).                                                   *)
(***************************************************************************)
EXTENDS Integers, Sequences, FiniteSets, TLC

GRID_SIZE == 4

WIN_SCORE == 512

\* Exploration bounds: the number of successful moves the model follows in
\* one session, and the number of empty cells it offers to spawns in one run
\* (a spawn on a sparse board has many outcomes; the two spawns of a reset
\* are offered 16 and 15 cells, the spawn of the first move after it 14 or 15).
MaxTurns == 1

MaxWork == 46

\* The number of successful moves the model follows when it plays a session
\* on from its last moves, without reset.
MaxPlay == 3

Idx == 1..GRID_SIZE

Directions == {"up", "down", "left", "right"}

NEW_GAME == "NEW GAME"

GAME_OVER == "GAME OVER"

VARIABLES
    grid,     \* self.grid: sequence of 4 rows of 4 integers
    score,    \* self.score
    won,      \* self.won
    status,   \* text last written to self.status_widget ("" before any)
    mounted,  \* on_mount has run: key events are delivered
    last,     \* what the last operation did: op, its direction dir, the
              \* grid, score and won flag before it (pre, score0, won0), the
              \* grid after the slide-merge (mid), the moved flag, the merge
              \* gain it computed, whether it pushed the win screen, and for
              \* is_game_over the value returned (over)
    turns,    \* successful moves followed in this session
    work      \* empty cells offered to spawns so far

vars == <<grid, score, won, status, mounted, last, turns, work>>

-----------------------------------------------------------------------------
\* Helpers on sequences and grids

RECURSIVE Reverse(_)
Reverse(s) == IF s = <<>> THEN <<>> ELSE Append(Reverse(Tail(s)), Head(s))

RECURSIVE Zeros(_)
Zeros(n) == IF n = 0 THEN <<>> ELSE Append(Zeros(n - 1), 0)

RECURSIVE Rows(_, _)
Rows(row, n) == IF n = 0 THEN <<>> ELSE Append(Rows(row, n - 1), row)

ZeroGrid == Rows(Zeros(GRID_SIZE), GRID_SIZE)

RECURSIVE ColumnFrom(_, _, _)
ColumnFrom(g, index, r) ==
    IF r > GRID_SIZE THEN <<>>
    ELSE <<g[r][index]>> \o ColumnFrom(g, index, r + 1)

Max2(a, b) == IF a >= b THEN a ELSE b

RECURSIVE SeqMax(_)
SeqMax(s) == IF Len(s) = 1 THEN s[1] ELSE Max2(s[1], SeqMax(Tail(s)))

Empties(g) == {rc \in Idx \X Idx : g[rc[1]][rc[2]] = 0}

-----------------------------------------------------------------------------
\* merge_line: drop the zeros, pair equal neighbours left to right, pad.

NonZeros(line) == SelectSeq(line, LAMBDA n : n # 0)

\* The scan letting a tile it has just merged merge again.
RECURSIVE MergeScanChained(_, _, _, _)
MergeScanChained(numbers, i, merged, gained) ==
    IF i > Len(numbers) THEN [merged |-> merged, gain |-> gained]
    ELSE IF merged # <<>> /\ merged[Len(merged)] = numbers[i]
         THEN MergeScanChained(numbers, i + 1,
                               [merged EXCEPT ![Len(merged)] = numbers[i] * 2],
                               gained + numbers[i] * 2)
         ELSE MergeScanChained(numbers, i + 1, Append(merged, numbers[i]),
                               gained)

\* The scan adding 2 to a merged tile instead of doubling it.
RECURSIVE MergeScanAddsTwo(_, _, _, _)
MergeScanAddsTwo(numbers, i, merged, gained) ==
    IF i > Len(numbers) THEN [merged |-> merged, gain |-> gained]
    ELSE IF i + 1 <= Len(numbers) /\ numbers[i] = numbers[i + 1]
         THEN MergeScanAddsTwo(numbers, i + 2, Append(merged, numbers[i] + 2),
                               gained + numbers[i] + 2)
         ELSE MergeScanAddsTwo(numbers, i + 1, Append(merged, numbers[i]),
                               gained)

\* The scan doubling a merged tile twice.
RECURSIVE MergeScanDoublesTwice(_, _, _, _)
MergeScanDoublesTwice(numbers, i, merged, gained) ==
    IF i > Len(numbers) THEN [merged |-> merged, gain |-> gained]
    ELSE IF i + 1 <= Len(numbers) /\ numbers[i] = numbers[i + 1]
         THEN MergeScanDoublesTwice(numbers, i + 2,
                                    Append(merged, numbers[i] * 2 * 2),
                                    gained + numbers[i] * 2 * 2)
         ELSE MergeScanDoublesTwice(numbers, i + 1, Append(merged, numbers[i]),
                                    gained)

\* The scan replacing a pair by one tile of the same value.
RECURSIVE MergeScanKeepsValue(_, _, _, _)
MergeScanKeepsValue(numbers, i, merged, gained) ==
    IF i > Len(numbers) THEN [merged |-> merged, gain |-> gained]
    ELSE IF i + 1 <= Len(numbers) /\ numbers[i] = numbers[i + 1]
         THEN MergeScanKeepsValue(numbers, i + 2, Append(merged, numbers[i]),
                                  gained + numbers[i])
         ELSE MergeScanKeepsValue(numbers, i + 1, Append(merged, numbers[i]),
                                  gained)

RECURSIVE MergeScan(_, _, _, _)
MergeScan(numbers, i, merged, gained) ==
    IF i > Len(numbers) THEN [merged |-> merged, gain |-> gained]
    ELSE IF i + 1 <= Len(numbers) /\ numbers[i] = numbers[i + 1]
         THEN MergeScan(numbers, i + 2, Append(merged, numbers[i] * 2),
                        gained + numbers[i] * 2)
         ELSE MergeScan(numbers, i + 1, Append(merged, numbers[i]), gained)

\* merge_line reporting a move only when something merged.
MergeLineMergedOnly(line) ==
    LET scan == MergeScan(NonZeros(line), 1, <<>>, 0)
        merged == scan.merged \o Zeros(GRID_SIZE - Len(scan.merged))
    IN  [merged |-> merged, gain |-> scan.gain, moved |-> scan.gain > 0]

\* merge_line putting the padding zeros in front of the merged tiles.
MergeLinePadsInFront(line) ==
    LET scan == MergeScan(NonZeros(line), 1, <<>>, 0)
        merged == Zeros(GRID_SIZE - Len(scan.merged)) \o scan.merged
    IN  [merged |-> merged, gain |-> scan.gain, moved |-> merged # line]

MergeLine(line) ==
    LET scan == MergeScan(NonZeros(line), 1, <<>>, 0)
        merged == scan.merged \o Zeros(GRID_SIZE - Len(scan.merged))
    IN  [merged |-> merged, gain |-> scan.gain, moved |-> merged # line]

\* get_line / set_line: a row or a column, read towards the move's edge.

\* get_line reading a column top to bottom for "down" too.
GetLineDownUnreversed(g, direction, index) ==
    IF direction \in {"left", "right"}
    THEN IF direction = "right" THEN Reverse(g[index]) ELSE g[index]
    ELSE ColumnFrom(g, index, 1)

GetLine(g, direction, index) ==
    IF direction \in {"left", "right"}
    THEN IF direction = "right" THEN Reverse(g[index]) ELSE g[index]
    ELSE LET line == ColumnFrom(g, index, 1)
         IN  IF direction = "down" THEN Reverse(line) ELSE line

RECURSIVE WriteColumn(_, _, _, _)
WriteColumn(g, index, line, r) ==
    IF r > GRID_SIZE THEN g
    ELSE WriteColumn([g EXCEPT ![r][index] = line[r]], index, line, r + 1)

\* set_line writing a line read from the right edge without reversing it
\* back.
SetLineRightUnreversed(g, direction, index, line) ==
    IF direction \in {"left", "right"}
    THEN [g EXCEPT ![index] = line]
    ELSE WriteColumn(g, index,
                     IF direction = "down" THEN Reverse(line) ELSE line, 1)

SetLine(g, direction, index, line) ==
    IF direction \in {"left", "right"}
    THEN [g EXCEPT ![index] =
             IF direction = "right" THEN Reverse(line) ELSE line]
    ELSE WriteColumn(g, index,
                     IF direction = "down" THEN Reverse(line) ELSE line, 1)

\* The loop of move over the four lines: each line is read, merged and
\* written back; moved is set as soon as one line changed.  The line read,
\* its merge m and the state after the iteration are each bound to their
\* value, so that every one is computed once.

RECURSIVE MoveLoop(_, _, _)
MoveLoop(st, direction, i) ==
    IF i > GRID_SIZE THEN st
    ELSE CHOOSE out \in
             {MoveLoop(after, direction, i + 1) :
                 after \in
                     {[grid |-> SetLine(st.grid, direction, i, m.merged),
                       moved |-> st.moved \/ m.moved,
                       gain |-> st.gain + m.gain] :
                         m \in {MergeLine(line) :
                                  line \in {GetLine(st.grid, direction, i)}}}} :
             TRUE

SlideMerge(g, direction) ==
    MoveLoop([grid |-> g, moved |-> FALSE, gain |-> 0], direction, 1)

\* add_random_tile: every grid the call can leave behind.

TileValues == {2, 4}

\* add_random_tile choosing among all cells, not the empty ones.
AddRandomTileAnyCell(g) ==
    {[g EXCEPT ![r][c] = v] : r \in Idx, c \in Idx, v \in TileValues}

\* add_random_tile without the early return on an empty list of empties:
\* on a full grid the call has no outcome.
AddRandomTileNoEarlyReturn(g) ==
    {[g EXCEPT ![rc[1]][rc[2]] = v] : rc \in Empties(g), v \in TileValues}

AddRandomTile(g) ==
    IF Empties(g) = {} THEN {g}
    ELSE {[g EXCEPT ![rc[1]][rc[2]] = v] : rc \in Empties(g), v \in TileValues}

\* is_game_over without the comparison with the cell to the right.
IsGameOverRowsOnly(g) ==
    \A r \in Idx : \A c \in Idx :
        /\ g[r][c] # 0
        /\ ~(r + 1 <= GRID_SIZE /\ g[r + 1][c] = g[r][c])

\* is_game_over without the test for an empty cell.
IsGameOverNoEmptyTest(g) ==
    \A r \in Idx : \A c \in Idx :
        /\ ~(r + 1 <= GRID_SIZE /\ g[r + 1][c] = g[r][c])
        /\ ~(c + 1 <= GRID_SIZE /\ g[r][c + 1] = g[r][c])

\* is_game_over comparing the last row and the last column with the first
\* ones, the index wrapping around.
IsGameOverWrapsAround(g) ==
    \A r \in Idx : \A c \in Idx :
        /\ g[r][c] # 0
        /\ g[(r % GRID_SIZE) + 1][c] # g[r][c]
        /\ g[r][(c % GRID_SIZE) + 1] # g[r][c]

IsGameOver(g) ==
    \A r \in Idx : \A c \in Idx :
        /\ g[r][c] # 0
        /\ ~(r + 1 <= GRID_SIZE /\ g[r + 1][c] = g[r][c])
        /\ ~(c + 1 <= GRID_SIZE /\ g[r][c + 1] = g[r][c])

RECURSIVE RowMaxima(_)
RowMaxima(g) ==
    IF g = <<>> THEN <<>> ELSE <<SeqMax(Head(g))>> \o RowMaxima(Tail(g))

UpdateScore(g) ==
    CHOOSE m \in {SeqMax(maxima) : maxima \in {RowMaxima(g)}} : TRUE

\* check_win without the early return when the game is already won.
CheckWinEveryTime(w, s) ==
    IF s >= WIN_SCORE THEN [won |-> TRUE, pushed |-> TRUE]
    ELSE [won |-> w, pushed |-> FALSE]

\* check_win asking for a score above 512.
CheckWinAbove(w, s) ==
    IF w THEN [won |-> w, pushed |-> FALSE]
    ELSE IF s > WIN_SCORE THEN [won |-> TRUE, pushed |-> TRUE]
    ELSE [won |-> FALSE, pushed |-> FALSE]

CheckWin(w, s) ==
    IF w THEN [won |-> w, pushed |-> FALSE]
    ELSE IF s >= WIN_SCORE THEN [won |-> TRUE, pushed |-> TRUE]
    ELSE [won |-> FALSE, pushed |-> FALSE]

\* The part of move after the loop, given the grid g2 the spawn left.
\* s is the session before the move, sl the result of the loop.

\* The same with the spawn, the score and the win check done on every move,
\* successful or not.
AfterLoopUnconditional(s, sl, g2) ==
    LET g3 == IF sl.moved \/ Empties(g2) = {} THEN g2
              ELSE CHOOSE g \in AddRandomTile(g2) : TRUE
        sc == UpdateScore(g3)
        w == CheckWin(s.won, sc)
    IN  [grid |-> g3, score |-> sc, won |-> w.won,
         status |-> IF IsGameOver(g3) THEN GAME_OVER ELSE s.status,
         pushed |-> w.pushed]

\* The same with add_random_tile called a second time after a successful
\* move.
AfterLoopSpawnsAgain(s, sl, g2) ==
    IF sl.moved
    THEN LET g3 == CHOOSE g \in AddRandomTile(g2) : TRUE
             sc == UpdateScore(g3)
             w == CheckWin(s.won, sc)
         IN  [grid |-> g3, score |-> sc, won |-> w.won,
              status |-> IF IsGameOver(g3) THEN GAME_OVER ELSE s.status,
              pushed |-> w.pushed]
    ELSE [grid |-> sl.grid, score |-> s.score, won |-> s.won,
          status |-> IF IsGameOver(sl.grid) THEN GAME_OVER ELSE s.status,
          pushed |-> FALSE]

\* The same with the score accumulating the merge gains.
AfterLoopCumulative(s, sl, g2) ==
    IF sl.moved
    THEN LET sc == s.score + sl.gain
             w == CheckWin(s.won, sc)
         IN  [grid |-> g2, score |-> sc, won |-> w.won,
              status |-> IF IsGameOver(g2) THEN GAME_OVER ELSE s.status,
              pushed |-> w.pushed]
    ELSE [grid |-> sl.grid, score |-> s.score, won |-> s.won,
          status |-> IF IsGameOver(sl.grid) THEN GAME_OVER ELSE s.status,
          pushed |-> FALSE]

\* The same with the game-over test of a successful move made on the grid
\* the slide-merge left, before the spawn.
AfterLoopTestsBeforeSpawn(s, sl, g2) ==
    IF sl.moved
    THEN LET sc == UpdateScore(g2)
             w == CheckWin(s.won, sc)
         IN  [grid |-> g2, score |-> sc, won |-> w.won,
              status |-> IF IsGameOver(sl.grid) THEN GAME_OVER ELSE s.status,
              pushed |-> w.pushed]
    ELSE [grid |-> sl.grid, score |-> s.score, won |-> s.won,
          status |-> IF IsGameOver(sl.grid) THEN GAME_OVER ELSE s.status,
          pushed |-> FALSE]

AfterLoop(s, sl, g2) ==
    IF sl.moved
    THEN LET sc == UpdateScore(g2)
             w == CheckWin(s.won, sc)
         IN  [grid |-> g2, score |-> sc, won |-> w.won,
              status |-> IF IsGameOver(g2) THEN GAME_OVER ELSE s.status,
              pushed |-> w.pushed]
    ELSE [grid |-> sl.grid, score |-> s.score, won |-> s.won,
          status |-> IF IsGameOver(sl.grid) THEN GAME_OVER ELSE s.status,
          pushed |-> FALSE]

MoveRecord(s, direction, sl, res) ==
    [grid |-> res.grid, score |-> res.score, won |-> res.won,
     status |-> res.status,
     last |-> [op |-> "move", dir |-> direction, moved |-> sl.moved,
               pre |-> s.grid, mid |-> sl.grid, gain |-> sl.gain,
               pushed |-> res.pushed, score0 |-> s.score, won0 |-> s.won,
               over |-> FALSE]]

\* The grids the spawn of a move can leave behind: add_random_tile is called
\* only when the loop moved something.

Spawned(sl) == IF sl.moved THEN AddRandomTile(sl.grid) ELSE {sl.grid}

\* move(direction): every session the call can leave behind.

MoveOutcomes(s, direction) ==
    LET sl == SlideMerge(s.grid, direction)
    IN  {MoveRecord(s, direction, sl, AfterLoop(s, sl, g2)) : g2 \in Spawned(sl)}

\* reset_game: every session the call can leave behind.

\* reset_game with a second spawn that does not see the first: both pick
\* their cell on the empty grid.
ResetOutcomesBlindSpawn ==
    LET twice == {[g1 EXCEPT ![rc[1]][rc[2]] = v] :
                     g1 \in AddRandomTile(ZeroGrid),
                     rc \in Empties(ZeroGrid), v \in TileValues}
    IN  {[grid |-> g2, score |-> UpdateScore(g2), won |-> FALSE,
          status |-> NEW_GAME,
          last |-> [op |-> "reset", dir |-> "none", moved |-> FALSE,
                    pre |-> ZeroGrid, mid |-> ZeroGrid, gain |-> 0,
                    pushed |-> FALSE, score0 |-> 0, won0 |-> FALSE,
                    over |-> FALSE]] : g2 \in twice}

ResetOutcomes ==
    LET twice == UNION {AddRandomTile(g1) : g1 \in AddRandomTile(ZeroGrid)}
    IN  {[grid |-> g2, score |-> UpdateScore(g2), won |-> FALSE,
          status |-> NEW_GAME,
          last |-> [op |-> "reset", dir |-> "none", moved |-> FALSE,
                    pre |-> ZeroGrid, mid |-> ZeroGrid, gain |-> 0,
                    pushed |-> FALSE, score0 |-> 0, won0 |-> FALSE,
                    over |-> FALSE]] : g2 \in twice}

-----------------------------------------------------------------------------
\* Recorded plays.  A play is the two tiles reset_game spawned, <<row, column,
\* value>>, and then one <<direction, row, column, value>> per successful
\* move: the key pressed and the tile add_random_tile spawned.  Replaying a
\* play with the operators above gives sessions the program reaches without
\* the model having to search hundreds of moves deep for them.

LongStart ==
    <<<<4,3,4>>, <<3,3,4>>>>

LongSteps ==
    <<
       <<"up",3,1,4>>, <<"left",2,3,4>>, <<"up",1,4,4>>, <<"left",1,3,4>>, <<"left",4,3,4>>,
       <<"up",4,1,4>>, <<"left",2,4,4>>, <<"up",2,4,4>>, <<"up",1,3,4>>, <<"right",4,4,4>>,
       <<"up",3,2,4>>, <<"up",4,3,4>>, <<"up",4,1,4>>, <<"left",4,2,4>>, <<"left",2,2,4>>,
       <<"up",2,4,4>>, <<"up",2,3,4>>, <<"up",3,3,4>>, <<"up",2,4,4>>, <<"right",4,1,4>>,
       <<"up",4,3,4>>, <<"right",3,1,4>>, <<"up",4,4,4>>, <<"right",4,3,4>>, <<"up",4,2,4>>,
       <<"up",4,3,4>>, <<"right",2,2,4>>, <<"up",3,3,4>>, <<"left",4,2,4>>, <<"left",1,3,4>>,
       <<"left",2,3,4>>, <<"up",3,4,4>>, <<"up",4,1,4>>, <<"left",3,3,4>>, <<"left",4,3,4>>,
       <<"up",1,4,4>>, <<"left",4,4,4>>, <<"up",4,2,4>>, <<"right",3,2,4>>, <<"up",3,1,4>>,
       <<"up",4,2,4>>, <<"up",3,2,4>>, <<"left",4,2,4>>, <<"up",4,4,4>>, <<"up",4,2,4>>,
       <<"up",4,3,4>>, <<"left",4,2,4>>, <<"left",4,3,4>>, <<"up",3,4,4>>, <<"up",4,4,4>>,
       <<"left",3,4,4>>, <<"left",4,4,4>>, <<"left",4,4,4>>, <<"up",3,3,4>>, <<"left",4,1,4>>,
       <<"up",3,2,4>>, <<"right",3,2,4>>, <<"up",3,1,4>>, <<"left",4,3,4>>, <<"up",3,4,4>>,
       <<"up",4,4,4>>, <<"left",4,2,4>>, <<"left",4,2,4>>, <<"up",4,3,4>>, <<"up",4,3,4>>,
       <<"up",4,4,4>>, <<"left",3,4,4>>, <<"up",3,4,4>>, <<"left",2,4,4>>, <<"up",3,3,4>>,
       <<"right",3,1,4>>, <<"up",4,2,4>>, <<"left",1,4,4>>, <<"up",3,4,4>>, <<"right",4,2,4>>,
       <<"up",3,2,4>>, <<"up",3,1,4>>, <<"right",4,4,4>>, <<"left",4,2,4>>, <<"right",2,2,4>>,
       <<"up",3,2,4>>, <<"up",3,2,4>>, <<"right",3,2,4>>, <<"up",3,2,4>>, <<"up",4,3,4>>,
       <<"right",4,1,4>>, <<"right",4,2,4>>, <<"up",3,1,4>>, <<"right",2,1,4>>, <<"up",3,2,4>>,
       <<"right",4,2,4>>, <<"up",2,1,4>>, <<"left",3,4,4>>, <<"up",4,2,4>>, <<"up",4,1,4>>,
       <<"right",2,1,4>>, <<"up",4,2,4>>, <<"left",4,3,4>>, <<"left",1,4,4>>, <<"up",4,3,4>>,
       <<"right",4,2,4>>, <<"up",2,1,4>>, <<"right",4,1,4>>, <<"up",2,2,4>>, <<"right",4,2,4>>,
       <<"right",4,1,4>>, <<"up",3,2,4>>, <<"right",4,1,4>>, <<"right",2,2,4>>, <<"left",3,3,4>>,
       <<"up",3,4,4>>, <<"up",3,1,4>>, <<"right",4,3,4>>, <<"up",2,2,4>>, <<"up",3,3,4>>,
       <<"left",4,2,4>>, <<"up",4,4,4>>, <<"up",4,1,4>>, <<"right",3,1,4>>, <<"up",4,4,4>>,
       <<"right",4,2,4>>, <<"right",3,3,4>>, <<"up",4,2,4>>, <<"right",4,1,4>>, <<"right",3,4,4>>,
       <<"left",4,3,4>>, <<"right",3,1,4>>, <<"up",4,2,4>>, <<"up",3,1,4>>, <<"right",4,1,4>>,
       <<"right",3,1,4>>, <<"right",2,2,4>>, <<"up",4,4,4>>, <<"right",4,2,4>>, <<"up",4,1,4>>,
       <<"right",2,1,4>>, <<"right",3,2,4>>, <<"up",4,3,4>>, <<"right",3,2,4>>, <<"right",3,2,4>>,
       <<"up",4,4,4>>, <<"right",3,3,4>>, <<"left",4,3,4>>, <<"right",4,3,4>>, <<"up",3,1,4>>,
       <<"up",4,1,4>>, <<"up",2,2,4>>, <<"left",3,2,4>>, <<"up",3,2,4>>, <<"right",4,1,4>>,
       <<"up",4,2,4>>, <<"right",3,2,4>>, <<"up",3,1,4>>, <<"left",3,4,4>>, <<"up",4,1,4>>,
       <<"right",2,1,4>>, <<"up",2,2,4>>, <<"up",3,3,4>>, <<"right",4,2,4>>, <<"up",2,1,4>>,
       <<"left",3,4,4>>, <<"up",3,1,4>>, <<"right",3,3,4>>, <<"up",3,4,4>>, <<"up",4,3,4>>,
       <<"up",4,4,4>>, <<"up",4,4,4>>, <<"up",3,2,4>>, <<"left",3,4,4>>, <<"right",4,4,4>>,
       <<"up",4,4,4>>, <<"up",4,2,4>>, <<"up",4,3,4>>, <<"right",3,2,4>>, <<"up",4,3,4>>,
       <<"up",2,1,4>>, <<"left",4,2,4>>, <<"up",3,3,4>>, <<"left",3,4,4>>, <<"up",4,4,4>>,
       <<"up",4,4,4>>, <<"right",2,1,4>>, <<"right",4,3,4>>, <<"right",4,1,4>>, <<"up",3,2,4>>,
       <<"up",4,1,4>>, <<"up",4,1,4>>, <<"right",2,1,4>>, <<"left",3,3,4>>, <<"up",4,4,4>>,
       <<"left",4,4,4>>, <<"up",4,3,4>>, <<"up",4,2,4>>, <<"left",3,4,4>>, <<"up",4,4,4>>,
       <<"left",3,4,4>>, <<"left",4,4,4>>, <<"left",4,3,4>>, <<"left",3,3,4>>, <<"up",4,2,4>>,
       <<"up",4,3,4>>, <<"up",4,4,4>>, <<"left",3,4,4>>, <<"left",3,4,4>>, <<"left",4,4,4>>,
       <<"left",3,4,4>>, <<"right",4,2,4>>, <<"left",4,4,4>>, <<"up",4,4,4>>, <<"up",4,4,4>>,
       <<"up",3,2,4>>, <<"up",4,4,4>>, <<"right",2,1,4>>, <<"up",4,3,4>>, <<"up",3,1,4>>,
       <<"up",3,1,4>>, <<"right",4,1,4>>, <<"right",4,1,4>>, <<"up",4,2,4>>, <<"up",3,1,4>>,
       <<"up",4,1,4>>, <<"left",4,4,4>>, <<"up",4,3,4>>, <<"right",4,2,4>>, <<"up",4,2,4>>,
       <<"right",2,1,4>>, <<"up",3,2,4>>, <<"left",4,2,4>>, <<"up",4,1,4>>, <<"right",4,2,4>>,
       <<"up",4,1,4>>, <<"up",4,3,4>>, <<"left",3,2,4>>, <<"right",4,2,4>>, <<"left",4,2,4>>,
       <<"up",4,3,4>>, <<"up",4,2,4>>, <<"left",4,3,4>>, <<"up",4,2,4>>, <<"left",3,3,4>>,
       <<"up",3,2,4>>, <<"left",4,3,4>>, <<"up",4,2,4>>, <<"right",4,2,4>>, <<"up",4,1,4>>,
       <<"up",4,3,4>>, <<"left",4,4,4>>, <<"up",4,2,4>>, <<"up",4,3,4>>, <<"left",4,3,4>>,
       <<"left",3,3,4>>, <<"up",3,4,4>>, <<"left",3,4,4>>, <<"right",4,1,4>>, <<"right",4,2,4>>,
       <<"right",4,2,4>>, <<"up",4,1,4>>, <<"left",3,4,4>>, <<"up",4,2,4>>, <<"left",3,4,4>>,
       <<"left",4,3,4>>, <<"up",4,3,4>>, <<"left",4,3,4>>, <<"left",4,4,4>>, <<"left",4,3,4>>,
       <<"right",4,1,4>>, <<"left",3,4,4>>, <<"up",4,3,4>>, <<"left",4,2,4>>, <<"right",4,2,4>>,
       <<"up",4,1,4>>, <<"up",4,1,4>>, <<"left",1,4,4>>, <<"up",4,4,4>>, <<"left",4,3,4>>
    >>

ShortStart ==
    <<<<4,3,4>>, <<1,2,2>>>>

ShortSteps ==
    <<
       <<"right",2,2,4>>, <<"left",4,2,4>>, <<"left",1,2,4>>, <<"down",1,4,2>>, <<"up",3,4,2>>,
       <<"right",3,1,2>>, <<"left",2,2,2>>, <<"down",2,3,4>>, <<"down",3,4,2>>, <<"up",4,3,2>>,
       <<"down",2,3,2>>, <<"up",4,4,4>>, <<"up",4,1,2>>, <<"down",1,3,4>>, <<"right",1,2,2>>,
       <<"left",1,4,2>>, <<"left",2,4,4>>, <<"right",1,1,4>>, <<"up",4,1,4>>
    >>

FarStart ==
    <<<<1,1,4>>, <<1,2,4>>>>

FarSteps ==
    <<
       <<"down",1,1,4>>, <<"up",1,3,4>>, <<"left",1,3,4>>, <<"left",1,3,4>>, <<"down",1,2,4>>,
       <<"up",1,4,4>>, <<"left",1,4,4>>, <<"left",1,4,4>>, <<"left",1,4,4>>, <<"left",1,4,4>>,
       <<"left",1,4,4>>, <<"left",1,4,4>>, <<"down",1,3,4>>, <<"up",2,4,4>>, <<"up",2,1,4>>,
       <<"left",1,4,4>>, <<"left",1,4,4>>, <<"left",1,4,4>>, <<"left",1,4,4>>, <<"left",1,4,4>>,
       <<"left",1,4,4>>, <<"left",1,4,4>>, <<"right",3,4,4>>, <<"up",2,1,4>>, <<"left",1,4,4>>,
       <<"left",1,4,4>>, <<"left",1,4,4>>, <<"down",1,4,4>>, <<"up",2,2,4>>, <<"left",1,4,4>>,
       <<"right",3,4,4>>, <<"up",3,4,4>>, <<"up",3,4,4>>, <<"up",2,1,4>>, <<"left",1,4,4>>,
       <<"left",1,4,4>>, <<"left",1,3,4>>, <<"up",1,4,4>>, <<"right",3,4,4>>, <<"up",2,1,4>>,
       <<"left",1,4,4>>, <<"left",1,4,4>>, <<"left",1,4,4>>, <<"down",1,4,4>>, <<"up",2,2,4>>,
       <<"left",1,4,4>>, <<"right",3,4,4>>, <<"up",3,4,4>>, <<"up",3,4,4>>, <<"up",2,1,4>>,
       <<"left",1,4,4>>, <<"left",1,4,4>>, <<"up",2,4,4>>, <<"right",3,4,4>>, <<"up",2,1,4>>,
       <<"right",3,4,4>>, <<"up",2,1,2>>, <<"left",1,4,4>>, <<"down",1,4,4>>, <<"up",3,1,4>>,
       <<"right",4,4,4>>, <<"up",2,1,2>>, <<"right",2,1,4>>, <<"right",2,1,4>>, <<"right",3,4,4>>,
       <<"up",2,1,2>>, <<"left",1,4,4>>, <<"left",1,4,4>>, <<"left",1,3,4>>, <<"up",1,4,4>>,
       <<"left",1,4,4>>, <<"down",1,4,4>>, <<"up",2,2,2>>, <<"left",1,4,4>>, <<"left",1,4,4>>,
       <<"left",1,4,4>>, <<"right",3,4,4>>, <<"up",2,1,4>>, <<"left",1,4,4>>, <<"down",1,4,4>>,
       <<"up",3,1,4>>, <<"right",4,4,4>>, <<"up",2,1,4>>, <<"left",1,4,4>>, <<"left",1,4,4>>,
       <<"left",1,4,4>>, <<"right",2,1,4>>, <<"right",3,3,4>>, <<"down",1,4,4>>, <<"up",3,4,4>>,
       <<"up",2,1,2>>, <<"left",1,4,4>>, <<"down",1,4,4>>, <<"up",3,1,4>>, <<"right",4,4,4>>,
       <<"up",2,1,2>>, <<"right",2,1,4>>, <<"right",2,1,4>>, <<"right",3,4,4>>, <<"up",2,1,2>>,
       <<"left",1,4,4>>, <<"left",1,4,4>>, <<"left",1,4,4>>, <<"down",1,4,4>>, <<"up",2,3,4>>,
       <<"left",1,4,4>>, <<"right",3,4,4>>, <<"up",3,4,4>>, <<"up",3,4,4>>, <<"up",2,1,4>>,
       <<"left",1,4,4>>, <<"up",3,1,4>>, <<"right",4,4,4>>, <<"up",2,1,4>>, <<"right",3,3,2>>,
       <<"up",3,3,4>>, <<"up",2,1,4>>, <<"right",3,4,4>>, <<"up",2,1,2>>, <<"left",1,4,4>>,
       <<"up",3,1,4>>, <<"right",4,4,4>>, <<"up",3,3,4>>, <<"up",2,1,2>>, <<"right",3,4,4>>,
       <<"up",2,1,4>>, <<"left",2,3,4>>, <<"right",2,1,4>>, <<"right",2,1,4>>, <<"right",2,1,4>>,
       <<"right",2,1,4>>, <<"right",2,1,4>>, <<"right",2,1,4>>, <<"right",3,4,4>>, <<"up",2,1,4>>,
       <<"left",1,4,4>>, <<"left",1,4,4>>, <<"left",1,3,4>>, <<"up",1,4,4>>, <<"right",3,4,4>>,
       <<"up",2,1,4>>, <<"left",1,4,4>>, <<"left",1,4,4>>, <<"left",1,4,4>>, <<"down",1,4,4>>,
       <<"up",2,2,4>>, <<"left",1,4,4>>, <<"right",3,4,4>>, <<"up",3,4,4>>, <<"up",3,4,4>>,
       <<"up",2,1,4>>, <<"left",1,4,4>>, <<"left",1,4,4>>, <<"up",2,4,4>>, <<"right",3,4,4>>,
       <<"up",2,1,4>>, <<"right",3,4,4>>, <<"up",2,1,2>>, <<"left",1,4,4>>, <<"down",1,4,4>>,
       <<"up",3,1,4>>, <<"right",4,4,4>>, <<"up",2,1,2>>, <<"right",2,1,4>>, <<"right",2,1,4>>,
       <<"right",3,4,4>>, <<"up",2,1,2>>, <<"left",1,4,4>>, <<"left",1,4,4>>, <<"left",1,4,4>>,
       <<"down",1,4,4>>, <<"up",2,3,4>>, <<"left",1,4,4>>, <<"right",3,4,4>>, <<"up",3,4,4>>,
       <<"up",3,4,4>>, <<"up",2,1,4>>, <<"left",1,4,4>>, <<"up",3,1,4>>, <<"right",4,4,4>>,
       <<"up",2,1,4>>, <<"right",3,3,2>>, <<"up",3,3,4>>, <<"up",2,1,4>>, <<"right",3,4,4>>,
       <<"up",2,1,2>>, <<"left",1,4,4>>, <<"up",3,1,4>>, <<"right",4,4,4>>, <<"up",3,3,4>>,
       <<"up",2,1,2>>, <<"right",3,4,4>>, <<"up",2,1,4>>, <<"left",2,3,4>>, <<"right",2,1,4>>,
       <<"right",2,1,4>>, <<"right",2,1,4>>, <<"right",2,1,4>>, <<"right",2,1,4>>, <<"right",2,1,4>>,
       <<"right",3,4,4>>, <<"up",2,1,4>>, <<"left",1,4,4>>, <<"left",1,4,4>>, <<"up",2,4,4>>,
       <<"right",3,4,4>>, <<"up",2,1,4>>, <<"right",3,4,4>>, <<"up",2,1,2>>, <<"left",1,4,4>>,
       <<"down",1,4,4>>, <<"up",3,1,4>>, <<"right",4,4,4>>, <<"up",2,1,2>>, <<"right",2,1,4>>,
       <<"right",2,1,4>>, <<"right",3,4,4>>, <<"up",2,1,2>>, <<"left",1,4,4>>, <<"down",1,4,4>>,
       <<"up",3,1,4>>, <<"right",4,4,4>>, <<"up",2,1,2>>, <<"right",2,1,4>>, <<"right",2,1,4>>,
       <<"right",3,4,4>>, <<"up",2,1,4>>, <<"left",2,3,4>>, <<"right",2,1,4>>, <<"right",2,1,4>>,
       <<"right",2,1,4>>, <<"right",2,1,4>>, <<"right",2,1,4>>, <<"right",2,1,4>>, <<"right",3,4,4>>,
       <<"up",2,1,4>>, <<"left",1,4,4>>, <<"right",3,4,4>>, <<"up",3,4,4>>, <<"up",3,4,4>>,
       <<"up",3,4,4>>, <<"up",2,1,4>>, <<"right",3,4,4>>, <<"up",3,4,4>>, <<"up",2,1,4>>,
       <<"right",2,1,4>>, <<"right",2,1,4>>, <<"right",2,1,4>>, <<"right",2,1,4>>, <<"right",2,1,4>>,
       <<"right",3,4,4>>, <<"up",3,4,4>>, <<"up",2,1,4>>, <<"right",2,1,4>>, <<"right",2,1,4>>,
       <<"right",2,1,4>>, <<"right",2,1,4>>, <<"right",2,1,4>>, <<"right",2,1,4>>, <<"right",2,1,4>>,
       <<"right",2,1,4>>, <<"right",2,1,4>>, <<"right",3,1,4>>, <<"up",3,1,4>>, <<"up",3,1,4>>,
       <<"left",3,2,4>>, <<"right",2,1,4>>, <<"right",3,3,4>>, <<"up",2,1,4>>, <<"left",1,4,4>>,
       <<"left",1,4,4>>, <<"left",1,4,4>>, <<"left",1,4,4>>, <<"left",1,4,4>>, <<"left",2,3,4>>,
       <<"up",1,4,4>>, <<"right",3,4,4>>, <<"up",2,1,4>>, <<"left",1,4,4>>, <<"down",1,4,4>>,
       <<"up",3,1,4>>, <<"right",4,4,4>>, <<"up",2,1,4>>, <<"left",1,4,4>>, <<"left",1,4,4>>,
       <<"left",1,4,4>>, <<"right",2,1,4>>, <<"right",3,3,4>>, <<"down",1,4,4>>, <<"up",3,4,4>>,
       <<"up",2,1,2>>, <<"left",1,4,4>>, <<"down",1,4,4>>, <<"up",3,1,4>>, <<"right",4,4,4>>,
       <<"up",2,1,2>>, <<"right",2,1,4>>, <<"right",2,1,4>>, <<"right",3,4,4>>, <<"up",2,1,2>>,
       <<"left",1,4,4>>, <<"left",1,4,4>>, <<"left",1,4,4>>, <<"down",1,4,4>>, <<"up",2,3,4>>,
       <<"left",1,4,4>>, <<"right",3,4,4>>, <<"up",3,4,4>>, <<"up",3,4,4>>, <<"up",2,1,4>>,
       <<"left",1,4,4>>, <<"up",3,1,4>>, <<"right",4,4,4>>, <<"up",2,1,4>>, <<"right",3,3,2>>,
       <<"up",3,3,4>>, <<"up",2,1,4>>, <<"right",3,4,4>>, <<"up",2,1,2>>, <<"left",1,4,4>>,
       <<"up",3,1,4>>, <<"right",4,4,4>>, <<"up",3,3,4>>, <<"up",2,1,2>>, <<"right",3,4,4>>,
       <<"up",2,1,4>>, <<"left",2,3,4>>, <<"right",2,1,4>>, <<"right",2,1,4>>, <<"right",2,1,4>>,
       <<"right",2,1,4>>, <<"right",2,1,4>>, <<"right",2,1,4>>, <<"right",3,4,4>>, <<"up",2,1,4>>,
       <<"left",1,4,4>>, <<"left",1,4,4>>, <<"up",2,4,4>>, <<"right",3,4,4>>, <<"up",2,1,4>>,
       <<"right",3,4,4>>, <<"up",2,1,2>>, <<"left",1,4,4>>, <<"down",1,4,4>>, <<"up",3,1,4>>,
       <<"right",4,4,4>>, <<"up",2,1,2>>, <<"right",2,1,4>>, <<"right",2,1,4>>, <<"right",3,4,4>>,
       <<"up",2,1,2>>, <<"left",1,4,4>>, <<"down",1,4,4>>, <<"up",3,1,4>>, <<"right",4,4,4>>,
       <<"up",2,1,2>>, <<"right",2,1,4>>, <<"right",2,1,4>>, <<"right",3,4,4>>, <<"up",2,1,4>>,
       <<"left",2,3,4>>, <<"right",2,1,4>>, <<"right",2,1,4>>, <<"right",2,1,4>>, <<"right",2,1,4>>,
       <<"right",2,1,4>>, <<"right",2,1,4>>, <<"right",3,4,4>>, <<"up",2,1,4>>, <<"left",1,4,4>>,
       <<"right",3,4,4>>, <<"up",3,4,4>>, <<"up",3,4,4>>, <<"up",3,4,4>>, <<"up",2,1,4>>,
       <<"right",3,4,4>>, <<"up",3,4,4>>, <<"up",2,1,4>>, <<"right",2,1,4>>, <<"right",2,1,4>>,
       <<"right",2,1,4>>, <<"right",2,1,4>>, <<"right",2,1,4>>, <<"right",3,4,4>>, <<"up",3,4,4>>,
       <<"up",2,1,4>>, <<"right",2,1,4>>, <<"right",2,1,4>>, <<"right",2,1,4>>, <<"right",2,1,4>>,
       <<"right",2,1,4>>, <<"right",2,1,4>>, <<"right",2,1,4>>, <<"right",2,1,4>>, <<"right",2,1,4>>,
       <<"right",3,1,4>>, <<"up",3,1,4>>, <<"up",3,1,4>>, <<"left",3,2,4>>, <<"right",2,1,4>>,
       <<"right",3,3,4>>, <<"up",2,1,4>>, <<"left",1,4,4>>, <<"left",1,4,4>>, <<"left",1,4,4>>,
       <<"right",2,1,4>>, <<"right",3,3,4>>, <<"down",1,4,4>>, <<"up",2,1,4>>, <<"right",2,1,4>>,
       <<"left",2,4,4>>, <<"up",2,3,4>>, <<"right",3,4,4>>, <<"up",3,4,4>>, <<"up",2,1,4>>,
       <<"right",3,4,4>>, <<"up",2,1,4>>, <<"left",1,4,4>>, <<"right",3,4,4>>, <<"up",3,4,4>>,
       <<"up",3,4,4>>, <<"up",3,4,4>>, <<"up",2,1,4>>, <<"right",3,4,4>>, <<"up",3,4,4>>,
       <<"up",2,1,4>>, <<"right",2,1,4>>, <<"right",2,1,4>>, <<"right",2,1,4>>, <<"right",2,1,4>>,
       <<"right",2,1,4>>, <<"right",3,4,4>>, <<"up",2,1,4>>, <<"left",1,4,4>>, <<"right",3,4,4>>,
       <<"up",3,4,4>>, <<"up",3,4,4>>, <<"up",3,4,4>>, <<"up",2,1,4>>, <<"right",3,4,4>>,
       <<"up",3,4,4>>, <<"up",2,1,4>>, <<"right",2,1,4>>, <<"right",2,1,4>>, <<"right",2,1,4>>,
       <<"right",2,1,4>>, <<"right",2,1,4>>, <<"right",3,4,4>>, <<"up",3,4,4>>, <<"up",2,1,4>>,
       <<"right",2,1,4>>, <<"right",2,1,4>>, <<"right",2,1,4>>, <<"right",2,1,4>>, <<"right",2,1,4>>,
       <<"right",2,1,4>>, <<"right",2,1,4>>, <<"right",2,1,4>>, <<"right",2,1,4>>, <<"right",3,1,4>>,
       <<"up",3,1,4>>, <<"up",3,1,4>>, <<"left",3,2,4>>, <<"right",2,1,4>>, <<"right",3,3,4>>,
       <<"up",2,1,4>>, <<"left",1,4,4>>, <<"right",2,1,4>>, <<"down",1,4,4>>, <<"up",2,2,4>>,
       <<"right",2,1,4>>, <<"right",2,1,4>>, <<"right",2,1,4>>, <<"right",2,1,4>>, <<"right",2,1,4>>,
       <<"right",2,1,4>>, <<"right",2,1,4>>, <<"right",3,1,4>>, <<"up",3,1,4>>, <<"up",3,1,4>>,
       <<"left",3,2,4>>, <<"right",2,1,4>>, <<"right",2,1,4>>, <<"right",2,1,4>>, <<"right",2,1,4>>,
       <<"right",2,1,4>>, <<"right",2,1,4>>, <<"right",2,1,4>>, <<"left",3,3,4>>, <<"left",3,3,4>>,
       <<"left",4,2,4>>, <<"up",3,3,4>>, <<"right",2,1,4>>, <<"right",2,1,4>>, <<"left",3,3,4>>,
       <<"left",3,3,4>>, <<"left",4,2,4>>, <<"up",3,3,4>>, <<"right",3,1,4>>, <<"left",4,1,4>>,
       <<"up",3,2,4>>, <<"right",2,1,4>>, <<"right",2,1,4>>, <<"right",2,1,4>>, <<"right",2,1,4>>,
       <<"right",2,1,4>>, <<"left",3,3,4>>, <<"right",3,1,4>>, <<"up",3,1,4>>, <<"right",2,1,4>>,
       <<"left",3,3,4>>, <<"left",3,3,4>>, <<"left",3,3,4>>, <<"left",3,3,4>>, <<"right",3,1,4>>,
       <<"left",4,1,4>>, <<"up",3,2,4>>, <<"right",2,1,4>>, <<"right",3,1,4>>, <<"up",3,1,4>>,
       <<"right",3,1,4>>, <<"up",3,1,4>>, <<"left",4,2,4>>, <<"up",3,3,4>>, <<"left",3,3,4>>,
       <<"left",3,3,4>>, <<"right",3,1,4>>, <<"up",4,1,4>>, <<"left",4,2,4>>, <<"right",3,1,4>>,
       <<"up",3,2,4>>, <<"left",4,1,4>>, <<"up",3,2,4>>, <<"right",2,1,4>>, <<"left",2,4,4>>,
       <<"up",2,3,4>>, <<"left",1,4,4>>, <<"up",2,3,4>>, <<"left",1,4,4>>, <<"up",2,4,4>>,
       <<"up",2,2,4>>, <<"left",1,4,4>>, <<"right",2,3,4>>, <<"down",1,4,4>>, <<"up",2,1,4>>,
       <<"right",2,1,4>>, <<"left",2,4,4>>, <<"up",2,3,4>>, <<"left",1,4,4>>, <<"up",2,4,4>>,
       <<"up",3,1,4>>, <<"right",4,4,4>>, <<"up",2,1,2>>, <<"left",1,4,4>>, <<"down",1,4,4>>,
       <<"up",3,1,4>>, <<"right",4,4,4>>, <<"up",3,3,4>>, <<"up",2,1,2>>, <<"right",3,4,4>>,
       <<"up",2,1,2>>, <<"left",1,4,4>>, <<"left",1,4,4>>, <<"left",1,4,4>>, <<"down",1,4,4>>,
       <<"up",2,3,4>>, <<"left",1,4,4>>, <<"right",3,4,4>>, <<"up",3,4,4>>, <<"up",3,4,4>>,
       <<"up",2,1,4>>, <<"left",1,4,4>>, <<"up",3,1,4>>, <<"right",4,4,4>>, <<"up",2,1,4>>,
       <<"right",3,3,2>>, <<"up",3,3,4>>, <<"up",2,1,4>>, <<"right",3,4,4>>, <<"up",2,1,2>>,
       <<"left",1,4,4>>, <<"up",3,1,4>>, <<"right",4,4,4>>, <<"up",3,3,4>>, <<"up",2,1,2>>,
       <<"right",3,4,4>>, <<"up",2,1,4>>, <<"left",2,3,4>>, <<"right",2,1,4>>, <<"right",2,1,4>>,
       <<"right",2,1,4>>, <<"right",2,1,4>>, <<"right",2,1,4>>, <<"right",2,1,4>>, <<"right",3,4,4>>,
       <<"up",2,1,4>>, <<"left",1,4,4>>, <<"left",1,4,4>>, <<"up",2,4,4>>, <<"right",3,4,4>>,
       <<"up",2,1,4>>, <<"right",3,4,4>>, <<"up",2,1,2>>, <<"left",1,4,4>>, <<"down",1,4,4>>,
       <<"up",3,1,4>>, <<"right",4,4,4>>, <<"up",2,1,2>>, <<"right",2,1,4>>, <<"right",2,1,4>>,
       <<"right",3,4,4>>, <<"up",2,1,2>>, <<"left",1,4,4>>, <<"down",1,4,4>>, <<"up",3,1,4>>,
       <<"right",4,4,4>>, <<"up",2,1,2>>, <<"right",2,1,4>>, <<"right",2,1,4>>, <<"right",3,4,4>>,
       <<"up",2,1,4>>, <<"left",2,3,4>>, <<"right",2,1,4>>, <<"right",2,1,4>>, <<"right",2,1,4>>,
       <<"right",2,1,4>>, <<"right",2,1,4>>, <<"right",2,1,4>>, <<"right",3,4,4>>, <<"up",2,1,4>>,
       <<"left",1,4,4>>, <<"right",3,4,4>>, <<"up",3,4,4>>, <<"up",3,4,4>>, <<"up",3,4,4>>,
       <<"up",2,1,4>>, <<"right",3,4,4>>, <<"up",3,4,4>>, <<"up",2,1,4>>, <<"right",2,1,4>>,
       <<"right",2,1,4>>, <<"right",2,1,4>>, <<"right",2,1,4>>, <<"right",2,1,4>>, <<"right",3,4,4>>,
       <<"up",3,4,4>>, <<"up",2,1,4>>, <<"right",2,1,4>>, <<"right",2,1,4>>, <<"right",2,1,4>>,
       <<"right",2,1,4>>, <<"right",2,1,4>>, <<"right",2,1,4>>, <<"right",2,1,4>>, <<"right",2,1,4>>,
       <<"right",2,1,4>>, <<"right",3,1,4>>, <<"up",3,1,4>>, <<"up",3,1,4>>, <<"left",3,2,4>>,
       <<"right",2,1,4>>, <<"right",3,3,4>>, <<"up",2,1,4>>, <<"left",1,4,4>>, <<"left",1,4,4>>,
       <<"left",1,4,4>>, <<"right",2,1,4>>, <<"right",3,3,4>>, <<"down",1,4,4>>, <<"up",2,1,4>>,
       <<"right",2,1,4>>, <<"left",2,4,4>>, <<"up",2,3,4>>, <<"right",3,4,4>>, <<"up",3,4,4>>,
       <<"up",2,1,4>>, <<"right",3,4,4>>, <<"up",2,1,4>>, <<"left",1,4,4>>, <<"right",3,4,4>>,
       <<"up",3,4,4>>, <<"up",3,4,4>>, <<"up",3,4,4>>, <<"up",2,1,4>>, <<"right",3,4,4>>,
       <<"up",3,4,4>>, <<"up",2,1,4>>, <<"right",2,1,4>>, <<"right",2,1,4>>, <<"right",2,1,4>>,
       <<"right",2,1,4>>, <<"right",2,1,4>>, <<"right",3,4,4>>, <<"up",2,1,4>>, <<"left",1,4,4>>,
       <<"right",3,4,4>>, <<"up",3,4,4>>, <<"up",3,4,4>>, <<"up",3,4,4>>, <<"up",2,1,4>>,
       <<"right",3,4,4>>, <<"up",3,4,4>>, <<"up",2,1,4>>, <<"right",2,1,4>>, <<"right",2,1,4>>,
       <<"right",2,1,4>>, <<"right",2,1,4>>, <<"right",2,1,4>>, <<"right",3,4,4>>, <<"up",3,4,4>>,
       <<"up",2,1,4>>, <<"right",2,1,4>>, <<"right",2,1,4>>, <<"right",2,1,4>>, <<"right",2,1,4>>,
       <<"right",2,1,4>>, <<"right",2,1,4>>, <<"right",2,1,4>>, <<"right",2,1,4>>, <<"right",2,1,4>>,
       <<"right",3,1,4>>, <<"up",3,1,4>>, <<"up",3,1,4>>, <<"left",3,2,4>>, <<"right",2,1,4>>,
       <<"right",3,3,4>>, <<"up",2,1,4>>, <<"left",1,4,4>>, <<"right",2,1,4>>, <<"down",1,4,4>>,
       <<"up",2,2,4>>, <<"right",2,1,4>>, <<"right",2,1,4>>, <<"right",2,1,4>>, <<"right",2,1,4>>,
       <<"right",2,1,4>>, <<"right",2,1,4>>, <<"right",2,1,4>>, <<"right",3,1,4>>, <<"up",3,1,4>>,
       <<"up",3,1,4>>, <<"left",3,2,4>>, <<"right",2,1,4>>, <<"right",2,1,4>>, <<"right",2,1,4>>,
       <<"right",2,1,4>>, <<"right",2,1,4>>, <<"right",2,1,4>>, <<"right",2,1,4>>, <<"left",3,3,4>>,
       <<"left",3,3,4>>, <<"left",4,2,4>>, <<"up",3,3,4>>, <<"right",2,1,4>>, <<"right",2,1,4>>,
       <<"left",3,3,4>>, <<"left",3,3,4>>, <<"left",4,2,4>>, <<"up",3,3,4>>, <<"right",3,1,4>>,
       <<"left",4,1,4>>, <<"up",3,2,4>>, <<"right",2,1,4>>, <<"right",2,1,4>>, <<"right",2,1,4>>,
       <<"right",2,1,4>>, <<"right",2,1,4>>, <<"left",3,3,4>>, <<"right",3,1,4>>, <<"up",3,1,4>>,
       <<"right",2,1,4>>, <<"left",3,3,4>>, <<"left",3,3,4>>, <<"left",3,3,4>>, <<"left",3,3,4>>,
       <<"right",3,1,4>>, <<"left",4,1,4>>, <<"up",3,2,4>>, <<"right",2,1,4>>, <<"right",3,1,4>>,
       <<"up",3,1,4>>, <<"right",3,1,4>>, <<"up",3,1,4>>, <<"left",4,2,4>>, <<"up",3,3,4>>,
       <<"left",3,3,4>>, <<"left",3,3,4>>, <<"right",3,1,4>>, <<"up",4,1,4>>, <<"left",4,2,4>>,
       <<"right",3,1,4>>, <<"up",3,2,4>>, <<"left",4,1,4>>, <<"up",3,2,4>>, <<"right",2,1,4>>,
       <<"left",2,4,4>>, <<"up",2,3,4>>, <<"left",1,4,4>>, <<"up",3,2,4>>, <<"right",2,1,4>>,
       <<"right",4,4,4>>, <<"down",1,4,4>>, <<"up",2,1,4>>, <<"right",2,1,4>>, <<"right",2,1,4>>,
       <<"right",2,1,4>>, <<"right",2,1,4>>, <<"right",2,1,4>>, <<"right",2,1,4>>, <<"left",2,4,4>>,
       <<"up",2,3,4>>, <<"right",3,2,4>>, <<"up",2,1,4>>, <<"right",3,4,4>>, <<"up",3,4,4>>,
       <<"up",2,1,4>>, <<"right",2,1,4>>, <<"right",2,1,4>>, <<"right",2,1,4>>, <<"right",2,1,4>>,
       <<"right",3,4,4>>, <<"up",2,1,4>>, <<"left",1,4,4>>, <<"right",3,4,4>>, <<"up",3,4,4>>,
       <<"up",3,4,4>>, <<"up",3,4,4>>, <<"up",2,1,4>>, <<"right",3,4,4>>, <<"up",3,4,4>>,
       <<"up",2,1,4>>, <<"right",2,1,4>>, <<"right",2,1,4>>, <<"right",2,1,4>>, <<"right",2,1,4>>,
       <<"right",2,1,4>>, <<"right",3,4,4>>, <<"up",3,4,4>>, <<"up",2,1,4>>, <<"right",2,1,4>>,
       <<"right",2,1,4>>, <<"right",2,1,4>>, <<"right",2,1,4>>, <<"right",2,1,4>>, <<"right",2,1,4>>,
       <<"right",2,1,4>>, <<"right",2,1,4>>, <<"right",2,1,4>>, <<"right",3,1,4>>, <<"up",3,1,4>>,
       <<"up",3,1,4>>, <<"left",3,2,4>>, <<"right",2,1,4>>, <<"right",3,3,4>>, <<"up",2,1,4>>,
       <<"left",1,4,4>>, <<"right",2,1,4>>, <<"down",1,4,4>>, <<"up",2,2,4>>, <<"right",2,1,4>>,
       <<"right",2,1,4>>, <<"right",2,1,4>>, <<"right",2,1,4>>, <<"right",2,1,4>>, <<"right",2,1,4>>,
       <<"right",2,1,4>>, <<"right",3,1,4>>, <<"up",3,1,4>>, <<"up",3,1,4>>, <<"left",3,2,4>>,
       <<"right",2,1,4>>, <<"right",2,1,4>>, <<"right",2,1,4>>, <<"right",2,1,4>>, <<"right",2,1,4>>,
       <<"right",2,1,4>>, <<"right",2,1,4>>, <<"left",3,3,4>>, <<"left",3,3,4>>, <<"left",4,2,4>>,
       <<"up",3,3,4>>, <<"right",2,1,4>>, <<"right",2,1,4>>, <<"left",3,3,4>>, <<"left",3,3,4>>,
       <<"left",4,2,4>>, <<"up",3,3,4>>, <<"right",3,1,4>>, <<"left",4,1,4>>, <<"up",3,2,4>>,
       <<"right",2,1,4>>, <<"right",2,1,4>>, <<"right",2,1,4>>, <<"right",2,1,4>>, <<"right",2,1,4>>,
       <<"left",3,3,4>>, <<"right",3,1,4>>, <<"up",3,1,4>>, <<"right",2,1,4>>, <<"left",3,3,4>>,
       <<"left",3,3,4>>, <<"left",3,3,4>>, <<"left",3,3,4>>, <<"right",3,1,4>>, <<"left",4,1,4>>,
       <<"up",3,2,4>>, <<"right",2,1,4>>, <<"right",3,1,4>>, <<"up",3,1,4>>, <<"right",3,1,4>>,
       <<"up",3,1,4>>, <<"left",4,2,4>>, <<"up",3,3,4>>, <<"left",3,3,4>>, <<"left",3,3,4>>,
       <<"right",3,1,4>>, <<"up",4,1,4>>, <<"left",4,2,4>>, <<"right",3,1,4>>, <<"up",3,2,4>>,
       <<"left",4,1,4>>, <<"up",3,2,4>>, <<"right",2,1,4>>, <<"left",2,4,4>>, <<"up",2,3,4>>,
       <<"right",3,2,4>>, <<"up",3,1,4>>, <<"up",3,1,4>>, <<"up",3,1,4>>, <<"left",3,2,4>>,
       <<"right",2,2,4>>, <<"up",3,4,4>>, <<"up",3,4,4>>, <<"up",2,1,4>>, <<"right",3,1,4>>,
       <<"up",3,1,4>>, <<"up",3,1,4>>, <<"left",3,2,4>>, <<"right",2,1,4>>, <<"up",3,1,4>>,
       <<"up",3,2,4>>, <<"left",3,2,4>>, <<"left",4,1,4>>, <<"up",3,2,4>>, <<"right",2,1,4>>,
       <<"right",2,1,4>>, <<"right",2,1,4>>, <<"left",3,3,4>>, <<"left",3,3,4>>, <<"left",4,2,4>>,
       <<"right",3,1,4>>, <<"up",4,4,4>>, <<"right",2,1,4>>, <<"up",3,1,4>>, <<"up",3,2,4>>,
       <<"left",3,2,4>>, <<"right",3,1,4>>, <<"up",3,2,4>>, <<"left",4,1,4>>, <<"up",3,2,4>>,
       <<"right",2,1,4>>, <<"left",3,3,4>>, <<"left",3,3,4>>, <<"left",3,3,4>>, <<"left",3,3,4>>,
       <<"right",3,1,4>>, <<"up",4,1,4>>, <<"left",4,2,4>>, <<"right",3,1,4>>, <<"up",4,1,4>>,
       <<"up",4,1,4>>, <<"up",3,2,4>>, <<"left",3,4,4>>, <<"left",3,4,4>>, <<"left",4,4,4>>,
       <<"up",4,4,4>>, <<"up",4,1,4>>, <<"left",4,2,4>>, <<"right",3,1,4>>, <<"up",4,1,4>>,
       <<"up",3,4,4>>, <<"left",4,2,4>>, <<"up",3,3,4>>, <<"left",3,3,4>>, <<"right",2,2,4>>,
       <<"up",3,2,4>>, <<"up",2,1,4>>, <<"right",3,1,4>>, <<"left",4,1,4>>, <<"up",3,2,4>>,
       <<"left",4,1,4>>, <<"up",3,2,4>>, <<"right",2,1,4>>, <<"left",3,3,4>>, <<"left",3,3,4>>,
       <<"left",3,3,4>>, <<"left",3,3,4>>, <<"right",3,1,4>>, <<"up",4,1,4>>, <<"left",4,2,4>>,
       <<"right",3,1,4>>, <<"up",4,1,4>>, <<"up",4,1,4>>, <<"up",3,2,4>>, <<"left",3,4,4>>,
       <<"left",3,4,4>>, <<"left",4,4,4>>, <<"up",4,4,4>>, <<"up",4,1,4>>, <<"left",4,2,4>>,
       <<"right",3,1,4>>, <<"up",3,2,4>>, <<"left",3,4,4>>, <<"left",3,4,4>>, <<"left",4,4,4>>,
       <<"up",4,4,4>>, <<"up",4,1,4>>, <<"left",4,2,4>>, <<"left",4,2,4>>, <<"up",4,2,4>>,
       <<"up",3,3,4>>, <<"left",3,3,4>>, <<"left",3,3,4>>, <<"left",3,3,4>>, <<"left",3,4,4>>,
       <<"left",3,4,4>>, <<"left",3,4,4>>, <<"left",3,4,4>>, <<"left",4,1,4>>, <<"up",3,3,4>>,
       <<"right",3,1,4>>, <<"right",4,4,4>>, <<"up",2,1,4>>, <<"right",3,1,4>>, <<"up",3,1,4>>,
       <<"right",3,1,4>>, <<"up",3,1,4>>, <<"left",4,2,4>>, <<"up",3,3,4>>, <<"left",3,3,4>>,
       <<"left",3,3,4>>, <<"right",3,1,4>>, <<"up",4,1,4>>, <<"left",4,2,4>>, <<"right",3,1,4>>,
       <<"up",3,2,4>>, <<"left",4,1,4>>, <<"up",3,2,4>>, <<"left",3,3,4>>, <<"left",3,3,4>>,
       <<"left",3,3,4>>, <<"left",4,2,4>>, <<"up",3,3,4>>, <<"left",3,3,4>>, <<"left",3,3,4>>,
       <<"left",3,3,4>>, <<"left",3,4,4>>, <<"left",3,4,4>>, <<"left",3,4,4>>, <<"left",3,4,4>>,
       <<"left",4,1,4>>, <<"up",3,3,4>>, <<"right",3,1,4>>, <<"left",3,4,4>>, <<"right",2,1,4>>,
       <<"left",3,4,4>>, <<"left",3,4,4>>, <<"left",3,4,4>>, <<"left",3,4,4>>, <<"right",3,1,4>>,
       <<"up",4,1,4>>, <<"left",4,2,4>>, <<"right",3,1,4>>, <<"up",3,2,4>>, <<"left",4,1,4>>,
       <<"up",4,1,4>>, <<"up",4,4,4>>, <<"up",4,4,4>>, <<"up",4,1,4>>, <<"right",4,1,4>>,
       <<"left",4,4,4>>, <<"up",4,1,4>>, <<"right",4,1,4>>, <<"up",4,1,4>>, <<"right",3,1,4>>,
       <<"right",3,1,4>>, <<"up",4,4,4>>, <<"up",3,2,4>>, <<"right",3,1,4>>, <<"up",3,2,4>>,
       <<"left",3,3,4>>, <<"left",3,3,4>>, <<"left",3,4,4>>, <<"left",3,4,4>>, <<"left",3,4,4>>,
       <<"left",3,4,4>>, <<"left",4,1,4>>, <<"up",4,1,4>>, <<"up",3,3,4>>, <<"left",3,3,4>>,
       <<"left",3,4,4>>, <<"left",3,4,4>>, <<"left",3,4,4>>, <<"left",3,4,4>>, <<"left",3,4,4>>,
       <<"left",3,4,4>>, <<"left",3,4,4>>, <<"left",3,4,4>>, <<"left",4,4,4>>, <<"up",4,4,4>>,
       <<"up",4,1,4>>, <<"right",3,1,4>>, <<"up",4,1,4>>, <<"up",4,4,4>>, <<"up",4,1,4>>,
       <<"right",4,1,4>>, <<"left",4,4,4>>, <<"up",4,1,4>>, <<"right",4,3,4>>, <<"up",4,1,4>>,
       <<"right",3,1,4>>, <<"up",4,1,4>>, <<"up",4,1,4>>, <<"right",4,1,4>>, <<"left",4,4,4>>,
       <<"up",4,1,4>>, <<"left",3,4,4>>, <<"left",4,3,4>>, <<"up",3,4,4>>, <<"left",3,4,4>>,
       <<"right",2,1,4>>, <<"up",4,1,4>>, <<"left",1,4,4>>
    >>

Constructed ==
    [grid |-> ZeroGrid, score |-> 0, won |-> FALSE, status |-> "",
     last |-> [op |-> "init", dir |-> "none", moved |-> FALSE,
               pre |-> ZeroGrid, mid |-> ZeroGrid, gain |-> 0,
               pushed |-> FALSE, score0 |-> 0, won0 |-> FALSE,
               over |-> FALSE]]

PlayStart(start) ==
    LET fits(o) == /\ o.grid[start[1][1]][start[1][2]] = start[1][3]
                   /\ o.grid[start[2][1]][start[2][2]] = start[2][3]
    IN  IF \E o \in ResetOutcomes : fits(o)
        THEN CHOOSE o \in ResetOutcomes : fits(o)
        ELSE Constructed

PlayMove(s, step) ==
    LET fits(o) == /\ o.last.moved
                   /\ o.last.mid[step[2]][step[3]] = 0
                   /\ o.grid[step[2]][step[3]] = step[4]
    IN  IF \E o \in MoveOutcomes(s, step[1]) : fits(o)
        THEN CHOOSE o \in MoveOutcomes(s, step[1]) : fits(o)
        ELSE s

\* The session after steps from..to of a play, starting in session s: the
\* first half of the steps, then the second.  A play is over once the board
\* is stuck.
RECURSIVE Replay(_, _, _, _)
Replay(s, steps, from, to) ==
    IF to < from THEN s
    ELSE IF from = to THEN PlayMove(s, steps[from])
    ELSE LET half == (from + to) \div 2
             first == Replay(s, steps, from, half)
         IN  IF IsGameOver(first.grid) THEN first
             ELSE Replay(first, steps, half + 1, to)

\* The sessions the model starts from besides the freshly constructed app:
\* the long play just before the first 512 (after 272 moves) and just before
\* the first 1024 (after 275), and the short play one move before the board
\* is stuck (after 18); and the far play once two tiles of 2048 lie side by
\* side (after all its moves).

NearWin == Replay(PlayStart(LongStart), LongSteps, 1, 272)

NearGrowth == Replay(NearWin, LongSteps, 273, 275)

NearStuck == Replay(PlayStart(ShortStart), ShortSteps, 1, 18)

Near4096 == Replay(PlayStart(FarStart), FarSteps, 1, Len(FarSteps))

Checkpoints == {NearWin, NearGrowth, NearStuck, Near4096}

-----------------------------------------------------------------------------
\* The state machine

Session == [grid |-> grid, score |-> score, won |-> won, status |-> status]

Install(o) ==
    /\ grid' = o.grid
    /\ score' = o.score
    /\ won' = o.won
    /\ status' = o.status
    /\ last' = o.last

Init ==
    \/ /\ mounted = FALSE
       /\ grid = Constructed.grid
       /\ score = Constructed.score
       /\ won = Constructed.won
       /\ status = Constructed.status
       /\ last = Constructed.last
       /\ turns = 0
       /\ work = 0
    \/ \E cp \in Checkpoints :
          /\ mounted = TRUE
          /\ grid = cp.grid
          /\ score = cp.score
          /\ won = cp.won
          /\ status = cp.status
          /\ last = cp.last
          /\ turns = 0
          /\ work = 0

\* The empty cells reset_game offers to its two spawns.
ResetCost == LET n == Cardinality(Empties(ZeroGrid)) IN n + (n - 1)

\* on_mount: the app starts its first game.
OnMount ==
    /\ ~mounted
    /\ work + ResetCost <= MaxWork
    /\ mounted' = TRUE
    /\ \E o \in ResetOutcomes : Install(o)
    /\ turns' = 0
    /\ work' = work + ResetCost

\* on_key, "r": reset_game.
KeyReset ==
    /\ mounted
    /\ work + ResetCost <= MaxWork
    /\ \E o \in ResetOutcomes : Install(o)
    /\ turns' = 0
    /\ work' = work + ResetCost
    /\ UNCHANGED mounted

\* The empty cells a move offers to its spawn.
SpawnCost(sl) == IF sl.moved THEN Cardinality(Empties(sl.grid)) ELSE 0

\* move(direction), followed while the session has made fewer than limit
\* successful moves.
MoveWithin(direction, limit) ==
    /\ mounted
    /\ \E sl \in {SlideMerge(grid, direction)} :
           /\ sl.moved => turns < limit /\ work + SpawnCost(sl) <= MaxWork
           /\ \E g2 \in Spawned(sl) :
                 \E res \in {AfterLoop(Session, sl, g2)} :
                     \E o \in {MoveRecord(Session, direction, sl, res)} :
                         Install(o)
           /\ turns' = IF sl.moved THEN turns + 1 ELSE turns
           /\ work' = work + SpawnCost(sl)
    /\ UNCHANGED mounted

\* on_key, a direction key: move(direction).
KeyMove(direction) == MoveWithin(direction, MaxTurns)

Next ==
    \/ OnMount
    \/ KeyReset
    \/ \E direction \in Directions : KeyMove(direction)

Spec == Init /\ [][Next]_vars

-----------------------------------------------------------------------------
\* move on an isolated row: the grid holds one line, drawn from all lines
\* over LineValues, in its first row and nothing else, and move is called on
\* it once.

LineValues == {0, 2, 4, 8}

RECURSIVE Lines(_)
Lines(n) ==
    IF n = 0 THEN {<<>>}
    ELSE {Append(l, v) : l \in Lines(n - 1), v \in LineValues}

ProbeLines == Lines(GRID_SIZE) \ {Zeros(GRID_SIZE)}

\* A session holding grid g in which nothing has been called yet.
Drawn(g) ==
    /\ grid = g
    /\ score = UpdateScore(g)
    /\ won = (UpdateScore(g) >= WIN_SCORE)
    /\ status = NEW_GAME
    /\ mounted = TRUE
    /\ last = [Constructed.last EXCEPT !.pre = g, !.mid = g,
                                      !.score0 = UpdateScore(g),
                                      !.won0 = (UpdateScore(g) >= WIN_SCORE)]
    /\ turns = 0
    /\ work = 0

LineInit == \E line \in ProbeLines : Drawn([ZeroGrid EXCEPT ![1] = line])

CallMove(direction) == last.op = "init" /\ KeyMove(direction)

LineNext == \E direction \in Directions : CallMove(direction)

LineSpec == LineInit /\ [][LineNext]_vars

-----------------------------------------------------------------------------
\* move, is_game_over and add_random_tile on drawn grids: the grid is drawn
\* from the grids whose rows are in ProbeRows, and one of the three is called
\* on it once.

ProbeRows ==
    {<<2, 4, 2, 4>>, <<4, 2, 4, 2>>, <<8, 2, 4, 8>>, <<2, 2, 4, 4>>,
     <<2, 4, 2, 0>>}

RECURSIVE GridsOf(_, _)
GridsOf(rows, n) ==
    IF n = 0 THEN {<<>>}
    ELSE {Append(g, row) : g \in GridsOf(rows, n - 1), row \in rows}

ProbeGrids == GridsOf(ProbeRows, GRID_SIZE)

GridInit == \E g \in ProbeGrids : Drawn(g)

\* is_game_over(): reads the grid, returns a boolean.
CallIsGameOver ==
    /\ last.op = "init"
    /\ last' = [op |-> "is_game_over", dir |-> "none", moved |-> FALSE,
                pre |-> grid, mid |-> grid, gain |-> 0, pushed |-> FALSE,
                score0 |-> score, won0 |-> won, over |-> IsGameOver(grid)]
    /\ UNCHANGED <<grid, score, won, status, mounted, turns, work>>

\* add_random_tile(): writes at most one cell of the grid and nothing else.
\* A call with no outcome is random.choice raising IndexError on an empty
\* list, before anything is written.
CallAddRandomTile ==
    /\ last.op = "init"
    /\ IF AddRandomTile(grid) = {}
       THEN /\ grid' = grid
            /\ last' = [last EXCEPT !.op = "IndexError"]
       ELSE /\ grid' \in AddRandomTile(grid)
            /\ last' = [last EXCEPT !.op = "add_random_tile"]
    /\ UNCHANGED <<score, won, status, mounted, turns, work>>

GridNext ==
    \/ CallIsGameOver
    \/ CallAddRandomTile
    \/ \E direction \in Directions : CallMove(direction)

GridSpec == GridInit /\ [][GridNext]_vars

-----------------------------------------------------------------------------
\* A session played on to its end: the model starts in the short play one
\* move before its board is stuck, and the player presses direction keys
\* only, never leaving a move that would change the grid unmade for ever.

LiveInit ==
    /\ mounted = TRUE
    /\ grid = NearStuck.grid
    /\ score = NearStuck.score
    /\ won = NearStuck.won
    /\ status = NearStuck.status
    /\ last = NearStuck.last
    /\ turns = 0
    /\ work = 0

Play(direction) == MoveWithin(direction, MaxPlay)

LiveNext == \E direction \in Directions : Play(direction)

\* A move that changes the grid.
Progress == LiveNext /\ last'.moved

LiveSpec == LiveInit /\ [][LiveNext]_vars /\ WF_vars(Progress)

-----------------------------------------------------------------------------
\* Properties

Cells == Idx \X Idx

At(g, rc) == g[rc[1]][rc[2]]

\* C1: a move counts as successful (moved is set, a tile is spawned and the
\* score recomputed) exactly when its slide-merge changed the grid: when the
\* grid after the slide-merge, before the spawn, differs from the grid before
\* the move.
C1_MovedIffChanged ==
    (mounted /\ last.op = "move") =>
        /\ last.moved <=> (last.mid # last.pre)
        /\ (grid # last.mid) <=> (last.mid # last.pre)
        /\ last.moved => \A rc \in Cells : At(grid, rc) <= score

\* A successful move that only slid tiles.
C1_Witness ==
    /\ turns > 0
    /\ last.op = "move"
    /\ last.moved
    /\ last.gain = 0
    /\ last.mid # last.pre
    /\ grid # last.mid

\* C2: after a successful move exactly one cell differs from the grid the
\* slide-merge left: it was empty then and holds 2 or 4 now.  A successful
\* slide-merge always leaves an empty cell for it.
C2_OneSpawn ==
    (last.op = "move" /\ last.moved) =>
        /\ \E rc \in Cells : At(last.mid, rc) = 0
        /\ \E rc \in Cells :
              /\ At(last.mid, rc) = 0
              /\ At(grid, rc) \in {2, 4}
              /\ \A other \in Cells \ {rc} : At(grid, other) = At(last.mid, other)

\* A successful move whose slide-merge left a single empty cell.
C2_Witness ==
    /\ turns > 0
    /\ last.op = "move"
    /\ last.moved
    /\ Cardinality({rc \in Cells : At(last.mid, rc) = 0}) = 1
    /\ \A rc \in Cells : At(grid, rc) # 0

\* Two cells are adjacent when they are next to each other in a row or in a
\* column.
Adjacent(a, b) ==
    \/ a[1] = b[1] /\ (a[2] = b[2] + 1 \/ b[2] = a[2] + 1)
    \/ a[2] = b[2] /\ (a[1] = b[1] + 1 \/ b[1] = a[1] + 1)

AdjacentPairs == {ab \in Cells \X Cells : Adjacent(ab[1], ab[2])}

\* No cell is empty and no two adjacent cells are equal.
Stuck(g) ==
    /\ \A rc \in Cells : At(g, rc) # 0
    /\ \A ab \in AdjacentPairs : At(g, ab[1]) # At(g, ab[2])

\* C3: is_game_over returns true exactly on the grids with no empty cell and
\* no two adjacent equal cells; emptying any one cell of such a grid, or
\* making any one adjacent pair equal, makes it return false; the call leaves
\* the grid, the score and the won flag as they were.
C3_GameOverIffStuck ==
    last.op = "is_game_over" =>
        /\ last.over <=> Stuck(last.pre)
        /\ last.over =>
              /\ \A rc \in Cells :
                    ~IsGameOver([last.pre EXCEPT ![rc[1]][rc[2]] = 0])
              /\ \A ab \in AdjacentPairs :
                    ~IsGameOver([last.pre EXCEPT ![ab[1][1]][ab[1][2]] =
                                                     At(last.pre, ab[2])])
        /\ grid = last.pre
        /\ score = last.score0
        /\ won = last.won0

\* is_game_over has returned true.
C3_Witness == last.op = "is_game_over" /\ last.over

\* A move in this direction is a no-op on g.
NoOp(g, direction) ==
    /\ ~SlideMerge(g, direction).moved
    /\ SlideMerge(g, direction).grid = g

\* C4: once the app runs, is_game_over is true exactly when a move in each of
\* the four directions is a no-op; a move made on a game-over grid leaves it
\* as it is, game-over still.
C4_GameOverIffNoMove ==
    mounted =>
        /\ IsGameOver(grid) <=> \A direction \in Directions : NoOp(grid, direction)
        /\ (last.op = "move" /\ IsGameOver(last.pre)) =>
              /\ ~last.moved
              /\ grid = last.pre
              /\ IsGameOver(grid)

\* A move has been made on a game-over grid.
C4_Witness ==
    /\ turns > 0
    /\ last.op = "move"
    /\ IsGameOver(last.pre)
    /\ \A direction \in Directions : NoOp(grid, direction)

Rev(s) == [k \in 1..Len(s) |-> s[Len(s) + 1 - k]]

Dense(line) == SelectSeq(line, LAMBDA n : n > 0)

\* The pairing the claim describes: from the leading edge, two equal
\* neighbours become one tile of twice the value and are both passed over.
RECURSIVE Paired(_)
Paired(numbers) ==
    IF Len(numbers) = 0 THEN <<>>
    ELSE IF Len(numbers) >= 2 /\ numbers[1] = numbers[2]
         THEN <<2 * numbers[1]>> \o Paired(Tail(Tail(numbers)))
         ELSE <<numbers[1]>> \o Paired(Tail(numbers))

\* The moved row, read from the edge the move goes to.
RowToward(g, direction) == IF direction = "right" THEN Rev(g[1]) ELSE g[1]

\* C5: a move to the left or to the right merges a row in one pass from the
\* leading edge, without chaining: the row becomes the pairing of its tiles
\* followed by zeros, every tile of the result is made of at most two tiles,
\* and [2,2,2,2], [2,2,2,0] and [4,2,2,0] give [4,4,0,0], [4,2,0,0] and
\* [4,4,0,0].
C5_SinglePassMerge ==
    (last.op = "move" /\ last.dir \in {"left", "right"}) =>
        LET in == RowToward(last.pre, last.dir)
            out == RowToward(last.mid, last.dir)
        IN  /\ Len(out) = GRID_SIZE
            /\ Dense(out) = Paired(Dense(in))
            /\ \A k \in 1..GRID_SIZE : k > Len(Dense(out)) => out[k] = 0
            /\ 2 * Len(Dense(out)) >= Len(Dense(in))
            /\ in = <<2, 2, 2, 2>> => out = <<4, 4, 0, 0>>
            /\ in = <<2, 2, 2, 0>> => out = <<4, 2, 0, 0>>
            /\ in = <<4, 2, 2, 0>> => out = <<4, 4, 0, 0>>

\* The row [2,2,2,2] has been moved to the left.
C5_Witness ==
    /\ last.op = "move"
    /\ last.dir = "left"
    /\ last.pre[1] = <<2, 2, 2, 2>>
    /\ last.mid[1] = <<4, 4, 0, 0>>

RevRows(g) == [r \in Idx |-> Rev(g[r])]

Transposed(g) == [r \in Idx |-> [c \in Idx |-> g[c][r]]]

\* g with every row but row i emptied, and with every column but column i
\* emptied.
OnlyRow(g, i) == [r \in Idx |-> [c \in Idx |-> IF r = i THEN g[r][c] ELSE 0]]

OnlyColumn(g, i) == [r \in Idx |-> [c \in Idx |-> IF c = i THEN g[r][c] ELSE 0]]

SameGrid(g, h) == \A rc \in Cells : At(g, rc) = At(h, rc)

\* C6: right is left mirrored, up is left transposed and down is right
\* transposed; every row (column) of the result depends on that row (column)
\* alone; and [2,2,4,4] gives [4,8,0,0] to the left and [0,0,4,8] to the
\* right.
C6_DirectionSymmetry ==
    last.op = "move" =>
        LET pre == last.pre
            mid == last.mid
            d == last.dir
        IN  /\ d = "right" =>
                  SameGrid(mid, RevRows(SlideMerge(RevRows(pre), "left").grid))
            /\ d = "up" =>
                  SameGrid(mid, Transposed(SlideMerge(Transposed(pre), "left").grid))
            /\ d = "down" =>
                  SameGrid(mid, Transposed(SlideMerge(Transposed(pre), "right").grid))
            /\ d \in {"left", "right"} =>
                  \A i \in Idx : \A c \in Idx :
                      mid[i][c] = SlideMerge(OnlyRow(pre, i), d).grid[i][c]
            /\ d \in {"up", "down"} =>
                  \A i \in Idx : \A r \in Idx :
                      mid[r][i] = SlideMerge(OnlyColumn(pre, i), d).grid[r][i]
            /\ \A r \in Idx :
                  pre[r] = <<2, 2, 4, 4>> =>
                      /\ d = "left" => mid[r] = <<4, 8, 0, 0>>
                      /\ d = "right" => mid[r] = <<0, 0, 4, 8>>

\* A grid with a row [2,2,4,4] has been moved down, merging in a column.
C6_Witness ==
    /\ last.op = "move"
    /\ last.dir = "down"
    /\ last.gain > 0
    /\ \E r \in Idx : last.pre[r] = <<2, 2, 4, 4>>

MaxCell(g) == CHOOSE m \in {At(g, rc) : rc \in Cells} :
                  \A rc \in Cells : At(g, rc) <= m

\* C7: the win screen is pushed by exactly the move that first produces a
\* cell of 512 or more, and that move sets the won flag; a move made when the
\* flag is set pushes nothing and leaves it set, whatever the largest tile
\* becomes; a reset clears the flag.
C7_WinOnce ==
    /\ last.op = "move" =>
          /\ last.pushed <=>
                (MaxCell(last.pre) < WIN_SCORE /\ MaxCell(grid) >= WIN_SCORE)
          /\ last.pushed => ~last.won0 /\ won
          /\ last.won0 => won /\ ~last.pushed
          /\ won # last.won0 => last.pushed
    /\ last.op = "reset" => ~won /\ ~last.pushed

\* The move that wins has been made.
C7_Witness ==
    /\ turns > 0
    /\ last.op = "move"
    /\ last.pushed
    /\ ~last.won0
    /\ won

\* A later move of a won session has made the largest tile grow.
C7_WitnessGrowth ==
    /\ turns > 0
    /\ last.op = "move"
    /\ last.won0
    /\ MaxCell(grid) > MaxCell(last.pre)
    /\ ~last.pushed

\* The k-th cell of line i of g, counted from the edge the move goes to.
Toward(g, direction, i, k) ==
    CASE direction = "left" -> g[i][k]
      [] direction = "right" -> g[i][GRID_SIZE + 1 - k]
      [] direction = "up" -> g[k][i]
      [] direction = "down" -> g[GRID_SIZE + 1 - k][i]

\* Every line of g is packed against the edge the move goes to, with no two
\* equal tiles next to each other in it.
Compacted(g, direction) ==
    \A i \in Idx : \A k \in 1..(GRID_SIZE - 1) :
        /\ Toward(g, direction, i, k) = 0 => Toward(g, direction, i, k + 1) = 0
        /\ Toward(g, direction, i, k) # 0 =>
              Toward(g, direction, i, k) # Toward(g, direction, i, k + 1)

\* C8: a move towards an edge against which the grid is already packed, with
\* no equal neighbours along the way, reports moved = false and leaves the
\* grid, the score and the won flag as they were: no spawn, no win.
C8_NoOpMove ==
    (last.op = "move" /\ Compacted(last.pre, last.dir)) =>
        /\ ~last.moved
        /\ grid = last.pre
        /\ score = last.score0
        /\ won = last.won0
        /\ ~last.pushed

\* A no-op move has been made on a grid that another move can still change.
C8_Witness ==
    /\ mounted
    /\ last.op = "move"
    /\ Compacted(last.pre, last.dir)
    /\ ~IsGameOver(last.pre)
    /\ grid = last.pre

NonZeroCount(g) == Cardinality({rc \in Cells : At(g, rc) # 0})

C10_ScoreIsMaxTile ==
    mounted =>
        /\ \E rc \in Cells : At(grid, rc) = score
        /\ \A rc \in Cells : At(grid, rc) <= score
        /\ (last.op = "move" /\ last.gain > 0) =>
              score < last.score0 + last.gain

\* A move has merged tiles and left the score as it was.
C10_Witness ==
    /\ turns > 0
    /\ last.op = "move"
    /\ last.gain > 0
    /\ score = last.score0

RECURSIVE PowerOfTwo(_)
PowerOfTwo(n) == n = 2 \/ (n > 2 /\ n % 2 = 0 /\ PowerOfTwo(n \div 2))

\* g is a 4x4 matrix of cells that are 0 or a power of two >= 2.
WellFormed(g) ==
    /\ Len(g) = GRID_SIZE
    /\ \A r \in Idx :
          /\ Len(g[r]) = GRID_SIZE
          /\ \A c \in Idx : g[r][c] = 0 \/ PowerOfTwo(g[r][c])

\* C11: in every reachable state the grid is a 4x4 matrix whose cells are 0
\* or a power of two >= 2; so is the grid a move's slide-merge leaves before
\* the spawn, and so is the grid a reset leaves.
C11_GridWellFormed ==
    /\ WellFormed(grid)
    /\ WellFormed(last.mid)
    /\ WellFormed(last.pre)

\* A move has merged tiles into a tile of 8 or more and spawned a tile.
C11_Witness ==
    /\ turns > 0
    /\ last.op = "move"
    /\ last.gain >= 8
    /\ grid # last.mid
    /\ WellFormed(grid)

\* The largest value Tile.VALUE_CLASSES has a class for.
LARGEST_CLASS == 2048

\* C12 as stated: every cell is 0 or a power of two between 2 and 2048.
C12_TilesAtMost2048 ==
    \A rc \in Cells :
        \/ At(grid, rc) = 0
        \/ PowerOfTwo(At(grid, rc)) /\ At(grid, rc) <= LARGEST_CLASS

\* C12 amended: every cell is 0 or a power of two >= 2, with no cap at 2048;
\* a move at most doubles the largest tile, in its slide-merge and after its
\* spawn.
C12_TilesAtMostDouble ==
    /\ \A rc \in Cells : At(grid, rc) = 0 \/ PowerOfTwo(At(grid, rc))
    /\ last.op = "move" =>
          /\ MaxCell(last.mid) <= 2 * MaxCell(last.pre)
          /\ MaxCell(grid) <= 2 * MaxCell(last.pre)

\* A move has merged two tiles of 2048 into one of 4096.
C12_Witness ==
    /\ turns > 0
    /\ last.op = "move"
    /\ MaxCell(last.pre) = LARGEST_CLASS
    /\ MaxCell(grid) = 2 * LARGEST_CLASS

\* C13: after reset_game, whatever the session before it, the grid holds
\* exactly two nonzero cells, each 2 or 4, the other 14 cells are 0, and the
\* won flag is false.
C13_ResetLeavesTwoTiles ==
    last.op = "reset" =>
        /\ \E a \in Cells : \E b \in Cells \ {a} :
              /\ At(grid, a) \in {2, 4}
              /\ At(grid, b) \in {2, 4}
              /\ \A rc \in Cells \ {a, b} : At(grid, rc) = 0
        /\ Cardinality({rc \in Cells : At(grid, rc) = 0}) =
              GRID_SIZE * GRID_SIZE - 2
        /\ ~won

\* A reset has been made by the key, after a successful move of the session
\* before it.
C13_Witness ==
    /\ last.op = "reset"
    /\ work > ResetCost
    /\ NonZeroCount(grid) = 2
    /\ ~won

\* C14: add_random_tile never raises; called on a grid with no empty cell it
\* leaves the grid, the score and the won flag as they were; called on a grid
\* with an empty cell it sets exactly one cell that was empty to 2 or 4 and
\* leaves the 15 other cells, the score and the won flag as they were.
C14_SpawnNeverFails ==
    /\ last.op # "IndexError"
    /\ last.op = "add_random_tile" =>
          /\ score = last.score0
          /\ won = last.won0
          /\ Empties(last.pre) = {} => grid = last.pre
          /\ Empties(last.pre) # {} =>
                \E rc \in Cells :
                    /\ At(last.pre, rc) = 0
                    /\ At(grid, rc) \in {2, 4}
                    /\ \A other \in Cells \ {rc} :
                          At(grid, other) = At(last.pre, other)

\* add_random_tile has been called on a grid with no empty cell.
C14_Witness ==
    /\ last.op = "add_random_tile"
    /\ \A rc \in Cells : At(last.pre, rc) # 0
    /\ grid = last.pre

\* add_random_tile has been called on a grid with a single empty cell and
\* has put a 4 there.
C14_WitnessSpawn ==
    /\ last.op = "add_random_tile"
    /\ Cardinality(Empties(last.pre)) = 1
    /\ \E rc \in Cells : At(last.pre, rc) = 0 /\ At(grid, rc) = 4

\* The number of cells of line holding v.
Count(line, v) == Cardinality({k \in 1..Len(line) : line[k] = v})

\* Two lines hold the same multiset of nonzero values.
SameTiles(a, b) ==
    \A v \in {a[k] : k \in 1..Len(a)} \cup {b[k] : k \in 1..Len(b)} :
        v # 0 => Count(a, v) = Count(b, v)

\* The nonzero cells of line are its last ones.
JustifiedRight(line) ==
    \A k \in 1..(Len(line) - 1) : line[k] # 0 => line[k + 1] # 0

\* Two equal tiles lie next to each other in the dense sequence of line.
EqualNeighbours(line) ==
    \E k \in 1..(Len(Dense(line)) - 1) : Dense(line)[k] = Dense(line)[k + 1]

RECURSIVE SeqSum(_)
SeqSum(s) == IF s = <<>> THEN 0 ELSE Head(s) + SeqSum(Tail(s))

\* The first row after the slide-merge of a move to the right made on the
\* grid the slide-merge of the last move left, no spawn in between.
ThenRight == SlideMerge(last.mid, "right").grid[1]

\* C15 as stated: after a move to the left on an isolated row, a move to the
\* right with no spawn in between gives a row with the same multiset of
\* nonzero values as the row the move to the left gave, justified to the
\* right edge.
C15_RightKeepsTiles ==
    (last.op = "move" /\ last.dir = "left") =>
        /\ SameTiles(ThenRight, last.mid[1])
        /\ JustifiedRight(ThenRight)

\* C15 amended: the row after the move to the right is justified to the
\* right edge and has the sum of the row the move to the left gave; it has
\* the same multiset of nonzero values, in the same order, exactly when that
\* row has no two equal tiles next to each other; otherwise the move to the
\* right merges them, from the right edge.
C15_RightMergesAgain ==
    (last.op = "move" /\ last.dir = "left") =>
        /\ JustifiedRight(ThenRight)
        /\ Len(ThenRight) = GRID_SIZE
        /\ SeqSum(ThenRight) = SeqSum(last.mid[1])
        /\ SameTiles(ThenRight, last.mid[1]) <=> ~EqualNeighbours(last.mid[1])
        /\ ~EqualNeighbours(last.mid[1]) => Dense(ThenRight) = Dense(last.mid[1])
        /\ Dense(Rev(ThenRight)) = Paired(Dense(Rev(last.mid[1])))

\* A row has been merged to the left into [4,8,0,0], which a move to the
\* right turns into [0,0,4,8].
C15_Witness ==
    /\ last.op = "move"
    /\ last.dir = "left"
    /\ last.gain > 0
    /\ last.mid[1] = <<4, 8, 0, 0>>
    /\ ThenRight = <<0, 0, 4, 8>>

\* Line i of g, read from the edge the move goes to.
LineToward(g, direction, i) ==
    [k \in 1..GRID_SIZE |-> Toward(g, direction, i, k)]

\* out is in with some pairs of equal neighbours replaced by one tile of
\* twice the value, the other tiles kept in their order.
RECURSIVE MergedFrom(_, _)
MergedFrom(in, out) ==
    IF in = <<>> \/ out = <<>> THEN in = <<>> /\ out = <<>>
    ELSE \/ in[1] = out[1] /\ MergedFrom(Tail(in), Tail(out))
         \/ /\ Len(in) >= 2
            /\ in[1] = in[2]
            /\ out[1] = 2 * in[1]
            /\ MergedFrom(Tail(Tail(in)), Tail(out))

\* C16: after the slide-merge of a move and before the spawn, the grid is
\* still 4x4 and every line is packed against the edge the move goes to: no
\* zero lies between that edge and a tile; the tiles of the line are those it
\* had, in their order, but for the pairs merged; a move that merged nothing
\* keeps every tile in its order; a line of zeros, or a single tile already
\* at the edge, is left as it was.
C16_LinesCompacted ==
    last.op = "move" =>
        /\ Len(last.mid) = GRID_SIZE
        /\ \A i \in Idx :
              LET in == LineToward(last.pre, last.dir, i)
                  out == LineToward(last.mid, last.dir, i)
              IN  /\ Len(last.mid[i]) = GRID_SIZE
                  /\ \A k \in 1..(GRID_SIZE - 1) : out[k] = 0 => out[k + 1] = 0
                  /\ MergedFrom(Dense(in), Dense(out))
                  /\ last.gain = 0 => Dense(out) = Dense(in)
                  /\ (\A k \in 1..GRID_SIZE : in[k] = 0) => out = in
                  /\ (in[1] # 0 /\ \A k \in 2..GRID_SIZE : in[k] = 0) => out = in

\* The row [2,0,2,4] has been moved to the right: the 2s closed up over the
\* gap and merged, behind the 4 that stayed at the edge.
C16_Witness ==
    /\ last.op = "move"
    /\ last.dir = "right"
    /\ last.pre[1] = <<2, 0, 2, 4>>
    /\ last.mid[1] = <<0, 0, 4, 4>>

\* The sum of line i of g in the orientation of the move, and of all cells.
LineSum(g, direction, i) ==
    IF direction \in {"left", "right"}
    THEN g[i][1] + g[i][2] + g[i][3] + g[i][4]
    ELSE g[1][i] + g[2][i] + g[3][i] + g[4][i]

GridSum(g) == SeqSum(g[1]) + SeqSum(g[2]) + SeqSum(g[3]) + SeqSum(g[4])

\* C17: the slide-merge of a move keeps the sum of every line and of the
\* whole grid; a successful move raises the grid sum by the value spawned,
\* 2 or 4, and so strictly; a no-op move leaves it as it was.
C17_SumConserved ==
    last.op = "move" =>
        /\ \A i \in Idx :
              LineSum(last.mid, last.dir, i) = LineSum(last.pre, last.dir, i)
        /\ GridSum(last.mid) = GridSum(last.pre)
        /\ last.moved => GridSum(grid) - GridSum(last.pre) \in {2, 4}
        /\ last.moved => GridSum(grid) > GridSum(last.pre)
        /\ ~last.moved => GridSum(grid) = GridSum(last.pre)

\* A move of a session has merged tiles and spawned a 4.
C17_Witness ==
    /\ turns > 0
    /\ last.op = "move"
    /\ last.gain > 0
    /\ GridSum(last.mid) = GridSum(last.pre)
    /\ GridSum(grid) = GridSum(last.pre) + 4

\* C18: after every operation the won flag is set exactly when the score is
\* 512 or more; a move lowers neither the score nor the flag.
C18_WonIffScore ==
    /\ won <=> score >= WIN_SCORE
    /\ last.op = "move" =>
          /\ score >= last.score0
          /\ last.won0 => won

\* A move has raised the score from below 512 to 512 and set the flag.
C18_Witness ==
    /\ turns > 0
    /\ last.op = "move"
    /\ last.score0 < WIN_SCORE
    /\ score = WIN_SCORE
    /\ won

\* C19: once the app runs, the status line shows one of the two messages,
\* and the GAME OVER one exactly when the grid is game-over: never while a
\* move in some direction would change the grid; the move that fills the
\* board with no equal neighbours sets it, and a move made when it shows
\* leaves it.
C19_StatusIffGameOver ==
    mounted =>
        /\ status \in {NEW_GAME, GAME_OVER}
        /\ status = GAME_OVER <=> IsGameOver(grid)
        /\ status = GAME_OVER => \A direction \in Directions : NoOp(grid, direction)
        /\ status = NEW_GAME => \E direction \in Directions : ~NoOp(grid, direction)
        /\ (last.op = "move" /\ IsGameOver(last.pre)) => status = GAME_OVER
        /\ last.op = "reset" => status = NEW_GAME

\* A successful move has left the board stuck and set the GAME OVER message.
C19_Witness ==
    /\ turns > 0
    /\ last.op = "move"
    /\ last.moved
    /\ ~IsGameOver(last.pre)
    /\ Stuck(grid)
    /\ status = GAME_OVER

====
